---- MODULE Spec2Model ----
(***************************************************************************)
(* Model of scripts/analyze_python.py: the Collector that walks a parsed   *)
(* Python module and builds the branch-flow graph, and main(), which reads *)
(* the payload from standard input, parses it, runs the Collector and      *)
(* prints one JSON object.                                                  *)
(*                                                                          *)
(* Python values are represented as follows.  A str is a TLA+ string; an   *)
(* f-string is a concatenation with \o and ToString.  A list is a          *)
(* sequence, a tuple is a tuple, a dict is a function on its key set, a    *)
(* set is a set.  Python's None is the string None below, and an optional  *)
(* bool (bool | None) is one of "True", "False", None.  A method that      *)
(* mutates the Collector and returns a value is an operator that takes the *)
(* Collector record c and returns a record holding the new Collector and   *)
(* the returned values.                                                     *)
(***************************************************************************)
EXTENDS Integers, Sequences, FiniteSets, TLC

VARIABLES pc, stdin, source, tree, visit_pos, collector, stdout

vars == <<pc, stdin, source, tree, visit_pos, collector, stdout>>

None == "None"

(***************************************************************************)
(* Syntax trees.  An expression node is a Constant (value is the literal), *)
(* a Name or a UnaryOp (op, one operand).  A statement node carries the    *)
(* fields the Collector reads: its class (type), name (FunctionDef,        *)
(* ClassDef), test, body and orelse (If), value (the class of the          *)
(* right-hand side of an expression or assignment statement), keyword (the *)
(* first word of the statement's source segment), lineno and end_lineno.   *)
(***************************************************************************)
Expr(type, value, op, operand) == [type |-> type, value |-> value, op |-> op, operand |-> operand]

Constant(value) == Expr("Constant", value, "", <<>>)

Name(id) == Expr("Name", id, "", <<>>)

UnaryOp(op, operand) == Expr("UnaryOp", "", op, <<operand>>)

NoExpr == Expr("", "", "", <<>>)

DefTypes == {"FunctionDef", "AsyncFunctionDef", "ClassDef"}

(***************************************************************************)
(* Collector.__init__                                                       *)
(***************************************************************************)
NewCollector == [functions |-> <<>>, classes |-> <<>>, branches |-> <<>>, branch_flows |-> <<>>, current_scope |-> "module", _branch_counter |-> <<>>, _branch_flow_keys |-> {}]

(***************************************************************************)
(* Collector._next_branch_idx: the counter of the key "owner::kind".       *)
(***************************************************************************)
\* A counter that hands out the index without advancing.
_next_branch_idx_kept(c, owner, kind) ==
  LET key == owner \o "::" \o kind
      idx == IF key \in DOMAIN c._branch_counter THEN c._branch_counter[key] ELSE 0
      counter == [k \in DOMAIN c._branch_counter \cup {key} |-> IF k = key THEN idx ELSE c._branch_counter[k]]
  IN  [c |-> [c EXCEPT !._branch_counter = counter], idx |-> idx]

_next_branch_idx(c, owner, kind) ==
  LET key == owner \o "::" \o kind
      idx == IF key \in DOMAIN c._branch_counter THEN c._branch_counter[key] ELSE 0
      counter == [k \in DOMAIN c._branch_counter \cup {key} |-> IF k = key THEN idx + 1 ELSE c._branch_counter[k]]
  IN  [c |-> [c EXCEPT !._branch_counter = counter], idx |-> idx]

(***************************************************************************)
(* Collector._add_flow: append the edge unless its triple was seen.        *)
(***************************************************************************)
_add_flow(c, source_id, target, flow_type) ==
  LET key == <<source_id, target, flow_type>>
  IN  IF key \in c._branch_flow_keys
        THEN c
        ELSE [c EXCEPT !._branch_flow_keys = @ \cup {key},
                       !.branch_flows = Append(@, [source |-> source_id, target |-> target, flowType |-> flow_type])]

(***************************************************************************)
(* Collector._add_branch: the id is f"{owner}::{kind}#{idx}".              *)
(***************************************************************************)
_add_branch(c, owner, kind, node) ==
  LET n == _next_branch_idx(c, owner, kind)
      branch_id == owner \o "::" \o kind \o "#" \o ToString(n.idx)
      payload == [id |-> branch_id, kind |-> kind, owner |-> owner, idx |-> n.idx, start |-> node.lineno, end |-> node.end_lineno]
  IN  [c |-> [n.c EXCEPT !.branches = Append(@, payload)], branch_id |-> branch_id]

(***************************************************************************)
(* Collector._extract_stmt_call: the Call of a bare-call statement or of   *)
(* the right-hand side of an assignment, one Await unwrapped.              *)
(***************************************************************************)
_extract_stmt_call(node) ==
  IF node.type \in {"Expr", "Assign", "AnnAssign", "AugAssign"} /\ node.value \in {"Call", "Await(Call)"}
    THEN "Call"
    ELSE None

(***************************************************************************)
(* Collector._known_truth_value                                            *)
(***************************************************************************)
\* An oracle that does not know None to be false.
RECURSIVE _known_truth_value_bool(_)
_known_truth_value_bool(expr) ==
  IF expr.type = "Constant" /\ expr.value \in {"True", "False"}
    THEN expr.value
  ELSE IF expr.type = "UnaryOp" /\ expr.op = "Not"
    THEN LET inner == _known_truth_value_bool(expr.operand[1])
         IN  IF inner = None THEN None
             ELSE IF inner = "True" THEN "False" ELSE "True"
  ELSE None

RECURSIVE _known_truth_value(_)
_known_truth_value(expr) ==
  IF expr.type = "Constant" /\ expr.value \in {"True", "False"}
    THEN expr.value
  ELSE IF expr.type = "Constant" /\ expr.value = "None"
    THEN "False"
  ELSE IF expr.type = "UnaryOp" /\ expr.op = "Not"
    THEN LET inner == _known_truth_value(expr.operand[1])
         IN  IF inner = None THEN None
             ELSE IF inner = "True" THEN "False" ELSE "True"
  ELSE None

(***************************************************************************)
(* Collector._stmt_falls_through and Collector._block_falls_through        *)
(***************************************************************************)
RECURSIVE _stmt_falls_through(_), _block_falls_through(_), _block_falls_through_from(_, _, _)
\* A fall-through that leaves out the block the condition rules out.
_stmt_falls_through_reachable(stmt) ==
  IF stmt.type \in {"Return", "Raise"}
    THEN FALSE
  ELSE IF stmt.type = "If"
    THEN LET then_falls == _block_falls_through(stmt.body)
             else_falls == IF Len(stmt.orelse) > 0 THEN _block_falls_through(stmt.orelse) ELSE TRUE
         IN  IF Len(stmt.orelse) = 0 THEN TRUE
             ELSE (_known_truth_value(stmt.test) # "False" /\ then_falls) \/ (_known_truth_value(stmt.test) # "True" /\ else_falls)
  ELSE TRUE

_stmt_falls_through(stmt) ==
  IF stmt.type \in {"Return", "Raise"}
    THEN FALSE
  ELSE IF stmt.type = "If"
    THEN LET then_falls == _block_falls_through(stmt.body)
             else_falls == IF Len(stmt.orelse) > 0 THEN _block_falls_through(stmt.orelse) ELSE TRUE
         IN  then_falls \/ else_falls
  ELSE TRUE

_block_falls_through_from(statements, i, path_open) ==
  IF i > Len(statements) \/ ~path_open
    THEN path_open
    ELSE _block_falls_through_from(statements, i + 1, _stmt_falls_through(statements[i]))

_block_falls_through(statements) == _block_falls_through_from(statements, 1, TRUE)

(***************************************************************************)
(* list(dict.fromkeys(exits)): the first occurrence of each anchor, in     *)
(* order.                                                                   *)
(***************************************************************************)
RECURSIVE dedup_from(_, _, _)
dedup_from(exits, i, kept) ==
  IF i > Len(exits) THEN kept
  ELSE dedup_from(exits, i + 1, IF \E j \in 1..Len(kept) : kept[j] = exits[i] THEN kept ELSE Append(kept, exits[i]))

dedup_exits(exits) == dedup_from(exits, 1, <<>>)

(***************************************************************************)
(* Collector._collect_stmt, the tail of the If case: the exit anchors and  *)
(* the fall-through result of a conditional whose blocks were collected.   *)
(***************************************************************************)
\* A conditional without the else-less case: its exits are always the union.
if_result_union(cond_id, stmt, then_r, else_r, then_reachable, else_reachable) ==
  LET e1 == IF then_reachable THEN then_r.exits ELSE <<>>
      e2 == IF else_reachable THEN e1 \o else_r.exits ELSE e1
      e3 == IF then_r.entry = None /\ then_r.falls /\ then_reachable
              THEN Append(e2, <<cond_id, "true">>)
              ELSE e2
      e4 == IF else_r.entry = None /\ else_r.falls /\ else_reachable
              THEN IF Len(stmt.orelse) = 0 /\ then_reachable /\ then_r.falls
                     THEN Append(e3, <<cond_id, "next">>)
                     ELSE Append(e3, <<cond_id, "false">>)
              ELSE e3
  IN  [exits |-> dedup_exits(e4),
       falls |-> (then_reachable /\ then_r.falls) \/ (else_reachable /\ else_r.falls)]

\* A conditional whose synthesized exit is false for either block.
if_result_false(cond_id, stmt, then_r, else_r, then_reachable, else_reachable) ==
  LET e1 == IF then_reachable THEN then_r.exits ELSE <<>>
      e2 == IF else_reachable THEN e1 \o else_r.exits ELSE e1
      e3 == IF then_r.entry = None /\ then_r.falls /\ then_reachable
              THEN Append(e2, <<cond_id, "false">>)
              ELSE e2
      e4 == IF else_r.entry = None /\ else_r.falls /\ else_reachable
              THEN IF Len(stmt.orelse) = 0 /\ then_reachable /\ then_r.falls
                     THEN Append(e3, <<cond_id, "next">>)
                     ELSE Append(e3, <<cond_id, "false">>)
              ELSE e3
  IN  IF Len(stmt.orelse) = 0
        THEN IF then_r.falls
               THEN [exits |-> <<<<cond_id, "next">>>>, falls |-> TRUE]
               ELSE [exits |-> <<<<cond_id, "false">>>>, falls |-> TRUE]
        ELSE [exits |-> dedup_exits(e4),
              falls |-> (then_reachable /\ then_r.falls) \/ (else_reachable /\ else_r.falls)]

if_result(cond_id, stmt, then_r, else_r, then_reachable, else_reachable) ==
  LET e1 == IF then_reachable THEN then_r.exits ELSE <<>>
      e2 == IF else_reachable THEN e1 \o else_r.exits ELSE e1
      e3 == IF then_r.entry = None /\ then_r.falls /\ then_reachable
              THEN Append(e2, <<cond_id, "true">>)
              ELSE e2
      e4 == IF else_r.entry = None /\ else_r.falls /\ else_reachable
              THEN IF Len(stmt.orelse) = 0 /\ then_reachable /\ then_r.falls
                     THEN Append(e3, <<cond_id, "next">>)
                     ELSE Append(e3, <<cond_id, "false">>)
              ELSE e3
  IN  IF Len(stmt.orelse) = 0
        THEN IF then_r.falls
               THEN [exits |-> <<<<cond_id, "next">>>>, falls |-> TRUE]
               ELSE [exits |-> <<<<cond_id, "false">>>>, falls |-> TRUE]
        ELSE [exits |-> dedup_exits(e4),
              falls |-> (then_reachable /\ then_r.falls) \/ (else_reachable /\ else_r.falls)]

(***************************************************************************)
(* Collector._collect_stmt, the cases after If: return, raise, call-shaped *)
(* statements, loops, try, with, and every other statement.                *)
(***************************************************************************)
\* A return or raise that exits to the next statement.
terminal_result_open(b) == [c |-> b.c, entry |-> b.branch_id, exits |-> <<<<b.branch_id, "next">>>>, falls |-> FALSE]

terminal_result(b) == [c |-> b.c, entry |-> b.branch_id, exits |-> <<>>, falls |-> FALSE]

next_result(b) == [c |-> b.c, entry |-> b.branch_id, exits |-> <<<<b.branch_id, "next">>>>, falls |-> TRUE]

collect_simple(c, owner, stmt) ==
  IF stmt.type = "Return" THEN terminal_result(_add_branch(c, owner, "return", stmt))
  ELSE IF stmt.type = "Raise" THEN terminal_result(_add_branch(c, owner, "raise", stmt))
  ELSE IF _extract_stmt_call(stmt) # None THEN next_result(_add_branch(c, owner, "call", stmt))
  ELSE IF stmt.type \in {"For", "AsyncFor"} THEN next_result(_add_branch(c, owner, "for", stmt))
  ELSE IF stmt.type = "While" THEN next_result(_add_branch(c, owner, "while", stmt))
  ELSE IF stmt.type = "Try" THEN next_result(_add_branch(c, owner, "try", stmt))
  ELSE IF stmt.type \in {"With", "AsyncWith"} THEN next_result(_add_branch(c, owner, "with", stmt))
  ELSE [c |-> c, entry |-> None, exits |-> <<>>, falls |-> _stmt_falls_through(stmt)]

(***************************************************************************)
(* Collector._collect_block and Collector._collect_stmt                    *)
(***************************************************************************)
RECURSIVE add_flows(_, _, _, _)
\* Edges drawn from the statement back to the pending exits.
add_flows_back(c, pending_exits, i, stmt_entry) ==
  IF i > Len(pending_exits) THEN c
  ELSE add_flows(_add_flow(c, stmt_entry, pending_exits[i][1], pending_exits[i][2]), pending_exits, i + 1, stmt_entry)

add_flows(c, pending_exits, i, stmt_entry) ==
  IF i > Len(pending_exits) THEN c
  ELSE add_flows(_add_flow(c, pending_exits[i][1], stmt_entry, pending_exits[i][2]), pending_exits, i + 1, stmt_entry)

RECURSIVE _collect_block(_, _, _), _collect_block_from(_, _, _, _, _, _), _collect_stmt(_, _, _), collect_if(_, _, _)
\* The body of the loop once the statement is collected (result r).
collect_block_step(r, owner, statements, i, entry_id, pending_exits) ==
  IF r.entry # None
    THEN _collect_block_from(add_flows(r.c, pending_exits, 1, r.entry), owner, statements, i + 1,
                             IF entry_id = None THEN r.entry ELSE entry_id, r.exits)
    ELSE _collect_block_from(r.c, owner, statements, i + 1, entry_id,
                             IF ~r.falls THEN <<>> ELSE pending_exits)

_collect_block_from(c, owner, statements, i, entry_id, pending_exits) ==
  IF i > Len(statements)
    THEN [c |-> c, entry |-> entry_id, exits |-> pending_exits, falls |-> _block_falls_through(statements)]
    ELSE collect_block_step(_collect_stmt(c, owner, statements[i]), owner, statements, i, entry_id, pending_exits)

_collect_block(c, owner, statements) == _collect_block_from(c, owner, statements, 1, None, <<>>)

\* The If case once both blocks are collected: the edges to the entries of
\* the reachable blocks, then the exits and the fall-through result.
collect_if_flows(cond_id, stmt, then_r, else_r, then_reachable, else_reachable) ==
  LET c1 == IF then_r.entry # None /\ then_reachable
              THEN _add_flow(else_r.c, cond_id, then_r.entry, "true")
              ELSE else_r.c
      c2 == IF else_r.entry # None /\ else_reachable
              THEN _add_flow(c1, cond_id, else_r.entry, "false")
              ELSE c1
  IN  [entry |-> cond_id] @@ [c |-> c2] @@ if_result(cond_id, stmt, then_r, else_r, then_reachable, else_reachable)

\* The If case once the then-block is collected (result then_r).
collect_if_else(cond_id, owner, stmt, then_r, known_truth) ==
  collect_if_flows(cond_id, stmt, then_r,
                   IF Len(stmt.orelse) > 0
                     THEN _collect_block(then_r.c, owner, stmt.orelse)
                     ELSE [c |-> then_r.c, entry |-> None, exits |-> <<>>, falls |-> TRUE],
                   known_truth # "False", known_truth # "True")

\* The If case once the branch of the conditional is added (result b).
collect_if_then(b, owner, stmt) ==
  collect_if_else(b.branch_id, owner, stmt, _collect_block(b.c, owner, stmt.body), _known_truth_value(stmt.test))

collect_if(c, owner, stmt) ==
  collect_if_then(_add_branch(c, owner, IF stmt.keyword = "elif" THEN "elif" ELSE "if", stmt), owner, stmt)

_collect_stmt(c, owner, stmt) ==
  IF stmt.type \in DefTypes THEN [c |-> c, entry |-> None, exits |-> <<>>, falls |-> TRUE]
  ELSE IF stmt.type = "If" THEN collect_if(c, owner, stmt)
  ELSE collect_simple(c, owner, stmt)

(***************************************************************************)
(* The visitor: NodeVisitor.visit dispatches on the node's class,          *)
(* generic_visit visits the child statements in field order (body, then    *)
(* orelse).                                                                 *)
(***************************************************************************)
\* An anchor that is given an edge only while it has none.
anchor_flow_once(c, qualified_name, entry_id) ==
  IF entry_id # None /\ \A k \in DOMAIN c.branch_flows : c.branch_flows[k].source # "owner::" \o qualified_name
    THEN _add_flow(c, "owner::" \o qualified_name, entry_id, "next")
    ELSE c

anchor_flow(c, qualified_name, entry_id) ==
  IF entry_id # None
    THEN _add_flow(c, "owner::" \o qualified_name, entry_id, "next")
    ELSE c

RECURSIVE visit(_, _), visit_all(_, _, _), generic_visit(_, _), visit_FunctionDef(_, _), visit_ClassDef(_, _)
\* visit_FunctionDef once the body is collected (result r).
visit_body(r, qualified_name, node, previous) ==
  [generic_visit(anchor_flow(r.c, qualified_name, r.entry), node) EXCEPT !.current_scope = previous]

visit_all(c, statements, i) ==
  IF i > Len(statements) THEN c
  ELSE visit_all(visit(c, statements[i]), statements, i + 1)

generic_visit(c, node) == visit_all(visit_all(c, node.body, 1), node.orelse, 1)

visit_ClassDef(c, node) ==
  LET c1 == [c EXCEPT !.classes = Append(@, [name |-> node.name, start |-> node.lineno, end |-> node.end_lineno])]
      previous == c.current_scope
  IN  [generic_visit([c1 EXCEPT !.current_scope = node.name], node) EXCEPT !.current_scope = previous]

visit_FunctionDef(c, node) ==
  LET qualified_name == IF c.current_scope # "module"
                          THEN c.current_scope \o "." \o node.name
                          ELSE node.name
      c1 == [c EXCEPT !.functions = Append(@, [name |-> node.name, qualifiedName |-> qualified_name, start |-> node.lineno, end |-> node.end_lineno])]
  IN  visit_body(_collect_block([c1 EXCEPT !.current_scope = qualified_name], qualified_name, node.body),
                 qualified_name, node, c.current_scope)

visit(c, node) ==
  IF node.type \in {"FunctionDef", "AsyncFunctionDef"} THEN visit_FunctionDef(c, node)
  ELSE IF node.type = "ClassDef" THEN visit_ClassDef(c, node)
  ELSE generic_visit(c, node)

(***************************************************************************)
(* The standard input.  The text on standard input is not JSON, a JSON     *)
(* value that is no object, or a JSON object with or without the "content" *)
(* field; the content is a string or not.  A content string is a sequence  *)
(* of logical lines, each an indentation depth and a statement header.     *)
(***************************************************************************)
Line(kind, name, test, value) == [indent |-> 0, kind |-> kind, name |-> name, test |-> test, value |-> value]

Stdin(json, has_content, content_type, content) == [json |-> json, has_content |-> has_content, content_type |-> content_type, content |-> content]

Openers == {"if", "elif", "else", "def", "async def", "class"}

NodeType(kind) ==
  CASE kind \in {"if", "elif"} -> "If"
    [] kind = "def" -> "FunctionDef"
    [] kind = "async def" -> "AsyncFunctionDef"
    [] kind = "class" -> "ClassDef"
    [] kind = "return" -> "Return"
    [] kind = "raise" -> "Raise"
    [] kind = "expr" -> "Expr"
    [] kind = "assign" -> "Assign"
    [] kind = "for" -> "For"
    [] kind = "while" -> "While"
    [] kind = "try" -> "Try"
    [] kind = "with" -> "With"
    [] OTHER -> "Pass"

(***************************************************************************)
(* ast.parse: the statements of the module with lineno and end_lineno, or  *)
(* a SyntaxError (ok is FALSE): a header that opens a block must be        *)
(* followed by a deeper line, no other line may be deeper than the one     *)
(* before it, and "else" / "elif" must close an "if" at their own depth.   *)
(***************************************************************************)
RECURSIVE ast_parse_block(_, _, _, _), ast_parse_stmt(_, _)
ast_parse_stmt(lines, i) ==
  LET ln == lines[i]
      node == [type |-> NodeType(ln.kind), name |-> ln.name, test |-> ln.test, body |-> <<>>, orelse |-> <<>>,
               value |-> ln.value, keyword |-> ln.kind, lineno |-> i, end_lineno |-> i]
  IN  IF ln.kind \notin Openers
        THEN [ok |-> TRUE, node |-> node, next |-> i + 1]
        ELSE LET b == ast_parse_block(lines, i + 1, ln.indent + 1, <<>>)
                 j == b.next
                 closes == ln.kind \in {"if", "elif"} /\ j <= Len(lines) /\ lines[j].indent = ln.indent
                 e == IF closes /\ lines[j].kind = "else"
                        THEN LET r == ast_parse_block(lines, j + 1, ln.indent + 1, <<>>)
                             IN  [r EXCEPT !.ok = r.ok /\ Len(r.statements) > 0]
                      ELSE IF closes /\ lines[j].kind = "elif"
                        THEN LET r == ast_parse_stmt(lines, j)
                             IN  [ok |-> r.ok, statements |-> <<r.node>>, next |-> r.next]
                      ELSE [ok |-> TRUE, statements |-> <<>>, next |-> j]
             IN  [ok |-> b.ok /\ Len(b.statements) > 0 /\ e.ok,
                  node |-> [node EXCEPT !.body = b.statements, !.orelse = e.statements, !.end_lineno = e.next - 1],
                  next |-> e.next]

ast_parse_block(lines, i, indent, done) ==
  IF i > Len(lines) \/ lines[i].indent < indent
    THEN [ok |-> TRUE, statements |-> done, next |-> i]
  ELSE IF lines[i].indent > indent \/ lines[i].kind \in {"else", "elif"}
    THEN [ok |-> FALSE, statements |-> done, next |-> i]
  ELSE LET r == ast_parse_stmt(lines, i)
       IN  IF r.ok
             THEN ast_parse_block(lines, r.next, indent, Append(done, r.node))
             ELSE [ok |-> FALSE, statements |-> done, next |-> i]

ast_parse(text) ==
  LET r == ast_parse_block(text, 1, 0, <<>>)
  IN  [ok |-> r.ok /\ r.next > Len(text), body |-> r.statements]

(***************************************************************************)
(* main                                                                     *)
(***************************************************************************)
Output(c) == [functions |-> c.functions, classes |-> c.classes, branches |-> c.branches, branchFlows |-> c.branch_flows]

LoadPayload ==
  /\ pc = "start"
  /\ IF stdin.json # "object"
       THEN /\ pc' = "fatal"
            /\ UNCHANGED source
       ELSE /\ source' = IF stdin.has_content
                           THEN [type |-> stdin.content_type, text |-> stdin.content]
                           ELSE [type |-> "str", text |-> <<>>]
            /\ pc' = "loaded"
  /\ UNCHANGED <<stdin, tree, visit_pos, collector, stdout>>

\* A parse that takes source it cannot read for an empty module.
ParseSource_lenient ==
  /\ pc = "loaded"
  /\ collector' = NewCollector
  /\ IF source.type # "str"
       THEN /\ pc' = "fatal"
            /\ UNCHANGED <<tree, visit_pos>>
       ELSE /\ tree' = IF ast_parse(source.text).ok THEN ast_parse(source.text).body ELSE <<>>
            /\ visit_pos' = 1
            /\ pc' = "visiting"
  /\ UNCHANGED <<stdin, source, stdout>>

ParseSource ==
  /\ pc = "loaded"
  /\ collector' = NewCollector
  /\ IF source.type # "str" \/ ~ast_parse(source.text).ok
       THEN /\ pc' = "fatal"
            /\ UNCHANGED <<tree, visit_pos>>
       ELSE /\ tree' = ast_parse(source.text).body
            /\ visit_pos' = 1
            /\ pc' = "visiting"
  /\ UNCHANGED <<stdin, source, stdout>>

VisitStatement ==
  /\ pc = "visiting"
  /\ visit_pos <= Len(tree)
  /\ collector' = visit(collector, tree[visit_pos])
  /\ visit_pos' = visit_pos + 1
  /\ UNCHANGED <<pc, stdin, source, tree, stdout>>

PrintOutput ==
  /\ pc = "visiting"
  /\ visit_pos > Len(tree)
  /\ stdout' = Append(stdout, Output(collector))
  /\ pc' = "done"
  /\ UNCHANGED <<stdin, source, tree, visit_pos, collector>>

(***************************************************************************)
(* The caller writes standard input before main reads it.  Four            *)
(* families of content are written:                                         *)
(*   - one function f with any body of up to MaxStmts statements over      *)
(*     conditionals ("if", "elif", "else") on True, False and x, returns,  *)
(*     calls and assignments;                                               *)
(*   - one function f with any body of up to MaxKinds statements over      *)
(*     every statement class the Collector distinguishes and over "if"     *)
(*     tests of every expression class the oracle distinguishes;           *)
(*   - one function f with any body of up to MaxGuarded statements over    *)
(*     conditionals on x with or without an else block, returns and calls; *)
(*   - any module of up to MaxDefs statements over functions, classes,     *)
(*     methods and nested functions named f or g, calls and returns.       *)
(* A line is written only where the lines before it allow it; a content    *)
(* that ends on a header with no block under it is not valid source.       *)
(***************************************************************************)
MaxStmts == 4

MaxKinds == 2

MaxDefs == 4

MaxGuarded == 5

DefF == Line("def", "f", NoExpr, "")

BodyLines ==
  {Line("if", "", t, "") : t \in {Constant("True"), Constant("False"), Name("x")}}
    \cup {Line("elif", "", Name("x"), ""), Line("else", "", NoExpr, ""), Line("return", "", NoExpr, ""), Line("expr", "", NoExpr, "Call"), Line("assign", "", NoExpr, "Constant")}

KindTests == {Constant("None"), Constant("1"), UnaryOp("Not", Constant("True")), UnaryOp("Not", Constant("None")), UnaryOp("Not", UnaryOp("Not", Name("x"))), UnaryOp("USub", Constant("True"))}

KindLines ==
  {Line("if", "", t, "") : t \in KindTests}
    \cup {Line("else", "", NoExpr, ""), Line("assign", "", NoExpr, "Await(Call)")}
    \cup {Line(k, "", NoExpr, "") : k \in {"raise", "for", "while", "try", "with", "pass"}}

GuardedLines ==
  {Line("if", "", Name("x"), ""), Line("else", "", NoExpr, ""), Line("return", "", NoExpr, ""), Line("expr", "", NoExpr, "Call")}

DefLines ==
  {Line(k, n, NoExpr, "") : k \in {"def", "class"}, n \in {"f", "g"}}
    \cup {Line("async def", "g", NoExpr, ""), Line("return", "", NoExpr, ""), Line("expr", "", NoExpr, "Call")}

NodeCount(text) == Cardinality({i \in 1..Len(text) : text[i].kind # "else"})

FunctionText(text, lines, bound) ==
  /\ text[1] = DefF
  /\ \A i \in 2..Len(text) : [text[i] EXCEPT !.indent = 0] \in lines /\ text[i].indent >= 1
  /\ NodeCount(text) <= bound + 1

ModuleText(text) ==
  /\ \A i \in 1..Len(text) : [text[i] EXCEPT !.indent = 0] \in DefLines
  /\ \A i \in 1..Len(text) : text[i].indent = 0 => text[i].kind \in {"def", "async def", "class"}
  /\ NodeCount(text) <= MaxDefs

Written(text) ==
  \/ FunctionText(text, BodyLines, MaxStmts)
  \/ FunctionText(text, KindLines, MaxKinds)
  \/ FunctionText(text, GuardedLines, MaxGuarded)
  \/ ModuleText(text)

Continues(text, line) ==
  LET n == Len(text)
      before == {i \in 1..n : text[i].indent <= line.indent}
      last == CHOOSE i \in before : \A k \in before : k <= i
  IN  /\ IF n = 0 THEN line.indent = 0
         ELSE IF text[n].kind \in Openers THEN line.indent = text[n].indent + 1
         ELSE line.indent <= text[n].indent
      /\ line.kind \in {"else", "elif"} =>
           /\ before # {}
           /\ text[last].indent = line.indent
           /\ text[last].kind \in {"if", "elif"}

WriteLine ==
  /\ pc = "start"
  /\ stdin.json = "object" /\ stdin.has_content /\ stdin.content_type = "str"
  /\ \E l \in BodyLines \cup KindLines \cup DefLines, d \in 0..Len(stdin.content) :
       LET line == [l EXCEPT !.indent = d]
           text == Append(stdin.content, line)
       IN  /\ Continues(stdin.content, line)
           /\ Written(text)
           /\ stdin' = [stdin EXCEPT !.content = text]
  /\ UNCHANGED <<pc, source, tree, visit_pos, collector, stdout>>

Init ==
  /\ pc = "start"
  /\ stdin \in {Stdin("invalid", FALSE, "", <<>>), Stdin("array", FALSE, "", <<>>), Stdin("object", FALSE, "", <<>>),
                Stdin("object", TRUE, "int", <<>>), Stdin("object", TRUE, "str", <<>>)}
  /\ source = [type |-> "str", text |-> <<>>]
  /\ tree = <<>>
  /\ visit_pos = 0
  /\ collector = NewCollector
  /\ stdout = <<>>

Next ==
  \/ WriteLine
  \/ LoadPayload
  \/ ParseSource
  \/ VisitStatement
  \/ PrintOutput

Spec == Init /\ [][Next]_vars

(***************************************************************************)
(* Vocabulary of the properties.  What the run has produced is read from   *)
(* the Collector; a statement and its branch are matched by line number    *)
(* (start is the statement's lineno, and a line holds one statement).      *)
(***************************************************************************)
Range(seq) == {seq[i] : i \in DOMAIN seq}

Branches == collector.branches

Flows == collector.branch_flows

Functions == collector.functions

Visited == SubSeq(tree, 1, visit_pos - 1)

RECURSIVE NodesOf(_)
NodesOf(statements) ==
  UNION {{statements[i]} \cup NodesOf(statements[i].body) \cup NodesOf(statements[i].orelse) : i \in 1..Len(statements)}

RECURSIVE BlocksIn(_)
BlocksIn(block) ==
  {block} \cup UNION {BlocksIn(block[i].body) \cup (IF Len(block[i].orelse) > 0 THEN BlocksIn(block[i].orelse) ELSE {})
                        : i \in {k \in 1..Len(block) : block[k].type = "If"}}

\* The blocks of the functions visited so far: each function's body and,
\* inside it, the then-block and the else-block of every conditional.
CollectedBlocks ==
  UNION {BlocksIn(n.body) : n \in {m \in NodesOf(Visited) : m.type \in {"FunctionDef", "AsyncFunctionDef"}}}

\* The kind of the branch a statement is emitted as, or None.
BranchKind(stmt) ==
  CASE stmt.type = "If" -> IF stmt.keyword = "elif" THEN "elif" ELSE "if"
    [] stmt.type = "Return" -> "return"
    [] stmt.type = "Raise" -> "raise"
    [] stmt.type \in {"Expr", "Assign", "AnnAssign", "AugAssign"} /\ stmt.value \in {"Call", "Await(Call)"} -> "call"
    [] stmt.type \in {"For", "AsyncFor"} -> "for"
    [] stmt.type = "While" -> "while"
    [] stmt.type = "Try" -> "try"
    [] stmt.type \in {"With", "AsyncWith"} -> "with"
    [] OTHER -> None

Branching(stmt) == BranchKind(stmt) # None

HasBranch(stmt) == \E k \in DOMAIN Branches : Branches[k].start = stmt.lineno

BranchOf(stmt) == Branches[CHOOSE k \in DOMAIN Branches : Branches[k].start = stmt.lineno]

\* The truth value a condition is known to have: "True", "False" or None.
RECURSIVE Resolved(_)
Resolved(expr) ==
  CASE expr.type = "Constant" /\ expr.value = "True" -> "True"
    [] expr.type = "Constant" /\ expr.value \in {"False", "None"} -> "False"
    [] expr.type = "UnaryOp" /\ expr.op = "Not" ->
         (CASE Resolved(expr.operand[1]) = "True" -> "False"
            [] Resolved(expr.operand[1]) = "False" -> "True"
            [] OTHER -> None)
    [] OTHER -> None

\* Fall-through of a block by its shape alone: a return or raise closes the
\* block; an "if" with an else block closes it when both of its blocks are
\* closed; nothing else does.  Reachability plays no part.
RECURSIVE FallsThrough(_)
FallsThrough(block) ==
  \A i \in 1..Len(block) :
    /\ block[i].type \notin {"Return", "Raise"}
    /\ block[i].type = "If" /\ Len(block[i].orelse) > 0 => FallsThrough(block[i].body) \/ FallsThrough(block[i].orelse)

\* j is the first branch-producing statement after statement i of the block.
FollowedBy(block, i, j) ==
  /\ i < j /\ j <= Len(block)
  /\ Branching(block[j])
  /\ \A k \in (i + 1)..(j - 1) : ~Branching(block[k])

\* The function record (its index) of the innermost function around a branch.
FunctionOf(b) ==
  LET around == {i \in DOMAIN Functions : Functions[i].start < b.start /\ b.start <= Functions[i].end}
  IN  CHOOSE i \in around : \A j \in around : Functions[j].start <= Functions[i].start

BodyBranches(i) == {k \in DOMAIN Branches : FunctionOf(Branches[k]) = i}

FirstBranch(i) == Branches[CHOOSE k \in BodyBranches(i) : \A l \in BodyBranches(i) : k <= l]

Anchor(i) == "owner::" \o Functions[i].qualifiedName

AnchorEdges(i) == {k \in DOMAIN Flows : Flows[k].source = Anchor(i)}

Edge(source_id, target, flow_type) == [source |-> source_id, target |-> target, flowType |-> flow_type]

(***************************************************************************)
(* C1 as claimed.  Scope-entry anchoring: for every function whose body    *)
(* yields at least one branch, exactly one flow edge has the source        *)
(* "owner::q", q the function's qualified name; it has flowType next and   *)
(* targets the first branch emitted for the function's body.               *)
(***************************************************************************)
C1_ExactlyOneAnchorEdge ==
  pc = "done" =>
    \A i \in DOMAIN Functions :
      BodyBranches(i) # {} =>
        \E k \in DOMAIN Flows :
          /\ AnchorEdges(i) = {k}
          /\ Flows[k] = Edge(Anchor(i), FirstBranch(i).id, "next")

(***************************************************************************)
(* C1 as amended.  For every function definition whose body yields at      *)
(* least one branch there is a flow edge from "owner::q" of flowType next   *)
(* to the first branch emitted for that definition's body; every edge from *)
(* "owner::q" is such an edge, and their number is the number of           *)
(* definitions with qualified name q that yield a branch: exactly one when *)
(* q names a single definition.                                            *)
(***************************************************************************)
C1_OneAnchorEdgePerDefinition ==
  \A i \in DOMAIN Functions :
    LET same == {j \in DOMAIN Functions : Functions[j].qualifiedName = Functions[i].qualifiedName /\ BodyBranches(j) # {}}
    IN  /\ BodyBranches(i) # {} => \E k \in DOMAIN Flows : Flows[k] = Edge(Anchor(i), FirstBranch(i).id, "next")
        /\ \A k \in AnchorEdges(i) : \E j \in same : Flows[k] = Edge(Anchor(i), FirstBranch(j).id, "next")
        /\ Cardinality(AnchorEdges(i)) = Cardinality(same)

\* Two definitions share a qualified name, each has a branch, and the run is over.
C1_Witness ==
  /\ pc = "done"
  /\ \E i, j \in DOMAIN Functions :
       /\ i # j
       /\ Functions[i].qualifiedName = Functions[j].qualifiedName
       /\ BodyBranches(i) # {} /\ BodyBranches(j) # {}
       /\ Cardinality(AnchorEdges(i)) = 2

(***************************************************************************)
(* C2 as claimed.  Atomic failure: output is written only when the payload *)
(* is valid JSON, holds the content field, and the content parses; when the *)
(* payload is not valid JSON, lacks the content field, or its content is   *)
(* not valid source, the run is fatal and nothing has been written.        *)
(***************************************************************************)
ValidJson == stdin.json # "invalid"

HasContentField == stdin.json = "object" /\ stdin.has_content

ContentParses == stdin.content_type = "str" /\ ast_parse(stdin.content).ok

C2_AtomicFailure ==
  /\ stdout # <<>> => ValidJson /\ HasContentField /\ ContentParses
  /\ pc \in {"fatal", "done"} /\ ~(ValidJson /\ HasContentField /\ ContentParses) => pc = "fatal" /\ stdout = <<>>

(***************************************************************************)
(* C2 as amended.  Output is written once, whole, and only when the        *)
(* payload is a JSON object whose content (the empty text when the field   *)
(* is absent) is a string that parses.  When the payload is not valid JSON *)
(* or its content is not valid source (or the payload is no object, or the *)
(* content no string) the run stops in the fatal state before anything is  *)
(* written.  A payload without the content field is no failure: it is      *)
(* analysed as empty source and the output with empty lists is written.    *)
(***************************************************************************)
C2_AtomicFailureAmended ==
  LET accepted == stdin.json = "object" /\ (stdin.has_content => ContentParses)
  IN  /\ stdout # <<>> => pc = "done" /\ accepted /\ stdout = <<Output(collector)>>
      /\ pc = "fatal" => stdout = <<>> /\ ~accepted
      /\ pc # "start" /\ ~accepted => pc \in {"loaded", "fatal"} /\ stdout = <<>>
      /\ pc # "start" /\ stdin.json = "invalid" => pc = "fatal"
      /\ pc = "done" /\ ~stdin.has_content => stdout = <<Output(NewCollector)>>

\* Content that is not valid source was read: the run is fatal, nothing written.
C2_Witness ==
  /\ pc = "fatal"
  /\ stdin.json = "object" /\ stdin.has_content /\ stdin.content_type = "str"
  /\ Len(stdin.content) > 1
  /\ ~ast_parse(stdin.content).ok
  /\ stdout = <<>>

(***************************************************************************)
(* C3.  Branch id uniqueness: the ids of the emitted branches are pairwise *)
(* distinct, and each id is owner::kind#index with index the number of     *)
(* branches of the same owner and kind emitted before it in the run.       *)
(***************************************************************************)
C3_BranchIdsUnique ==
  /\ \A i, j \in DOMAIN Branches : i # j => Branches[i].id # Branches[j].id
  /\ \A i \in DOMAIN Branches :
       LET b == Branches[i]
           earlier == {j \in 1..(i - 1) : Branches[j].owner = b.owner /\ Branches[j].kind = b.kind}
       IN  /\ b.idx = Cardinality(earlier)
           /\ b.id = b.owner \o "::" \o b.kind \o "#" \o ToString(b.idx)

\* Two functions of one qualified name have each emitted a branch of one kind.
C3_Witness ==
  /\ pc = "done"
  /\ \E i, j \in DOMAIN Branches :
       /\ i < j
       /\ Branches[i].owner = Branches[j].owner /\ Branches[i].kind = Branches[j].kind
       /\ FunctionOf(Branches[i]) # FunctionOf(Branches[j])
       /\ Branches[j].idx > 0

(***************************************************************************)
(* C4.  Guard-clause modelling: when an "if" with no else block is         *)
(* followed in its block by a branch-producing statement S, exactly one    *)
(* edge enters S; its source is the "if" branch and its label is false     *)
(* when the then-block cannot fall through, next when it can; no branch    *)
(* inside the then-block has an edge to S.  Fall-through is that of the    *)
(* block's shape (FallsThrough).                                            *)
(***************************************************************************)
OwnNodes(block) == UNION {Range(b) : b \in BlocksIn(block)}

C4_GuardClause ==
  \A block \in CollectedBlocks : \A i, j \in 1..Len(block) :
    block[i].type = "If" /\ Len(block[i].orelse) = 0 /\ FollowedBy(block, i, j) =>
      /\ HasBranch(block[i]) /\ HasBranch(block[j])
      /\ \E k \in DOMAIN Flows :
           /\ {l \in DOMAIN Flows : Flows[l].target = BranchOf(block[j]).id} = {k}
           /\ Flows[k] = Edge(BranchOf(block[i]).id, BranchOf(block[j]).id,
                              IF FallsThrough(block[i].body) THEN "next" ELSE "false")
      /\ \A n \in OwnNodes(block[i].body) :
           HasBranch(n) => \A k \in DOMAIN Flows : ~(Flows[k].source = BranchOf(n).id /\ Flows[k].target = BranchOf(block[j]).id)

\* The run on "def f(): / if x: / return / y()" is over: branches if#0,
\* return#0, call#0 in that order, and the edge if#0 --false--> call#0.
C4_Witness ==
  /\ pc = "done"
  /\ Len(tree) = 1 /\ Len(tree[1].body) = 2
  /\ tree[1].body[1].type = "If" /\ tree[1].body[1].test = Name("x") /\ Len(tree[1].body[1].orelse) = 0
  /\ Len(tree[1].body[1].body) = 1 /\ tree[1].body[1].body[1].type = "Return"
  /\ tree[1].body[2].type = "Expr"
  /\ [k \in DOMAIN Branches |-> Branches[k].id] = <<"f::if#0", "f::return#0", "f::call#0">>
  /\ Edge("f::if#0", "f::call#0", "false") \in Range(Flows)

(***************************************************************************)
(* C5.  Dead-branch suppression: for a conditional whose condition         *)
(* resolves to false, the conditional and the statements of its then-block *)
(* are still emitted as branches, but no flow edge labelled true has the   *)
(* conditional as its source; when the condition resolves to true, no edge *)
(* leads from the conditional to the entry branch of its else-block.       *)
(***************************************************************************)
C5_DeadBranchSuppression ==
  \A block \in CollectedBlocks : \A i \in 1..Len(block) :
    block[i].type = "If" =>
      /\ Resolved(block[i].test) = "False" =>
           /\ HasBranch(block[i])
           /\ \A n \in OwnNodes(block[i].body) : Branching(n) => HasBranch(n) /\ BranchOf(n).kind = BranchKind(n)
           /\ \A k \in DOMAIN Flows : ~(Flows[k].source = BranchOf(block[i]).id /\ Flows[k].flowType = "true")
      /\ Resolved(block[i].test) = "True" =>
           \A j \in 1..Len(block[i].orelse) :
             Branching(block[i].orelse[j]) /\ (\A l \in 1..(j - 1) : ~Branching(block[i].orelse[l])) =>
               /\ HasBranch(block[i]) /\ HasBranch(block[i].orelse[j])
               /\ \A k \in DOMAIN Flows : ~(Flows[k].source = BranchOf(block[i]).id /\ Flows[k].target = BranchOf(block[i].orelse[j]).id)

\* A conditional on a condition that resolves to false through a negation has
\* been analysed; its then-block holds a branch.
C5_Witness ==
  /\ pc = "done"
  /\ \E block \in CollectedBlocks : \E i \in 1..Len(block) :
       /\ block[i].type = "If"
       /\ block[i].test.type = "UnaryOp"
       /\ Resolved(block[i].test) = "False"
       /\ \E n \in OwnNodes(block[i].body) : HasBranch(n)

(***************************************************************************)
(* C6.  Terminal statements have no outgoing edges: in every reachable     *)
(* state no flow edge has a branch of kind return or raise as its source.  *)
(***************************************************************************)
C6_TerminalsHaveNoOutgoingEdges ==
  \A k \in DOMAIN Flows : \A i \in DOMAIN Branches :
    Branches[i].kind \in {"return", "raise"} => Flows[k].source # Branches[i].id

\* A return inside a then-block is followed by a branch-producing statement
\* of the same block, and a statement follows the conditional.
C6_Witness ==
  /\ pc = "done"
  /\ \E block \in CollectedBlocks : \E i, j \in 1..Len(block) :
       /\ block[i].type = "If" /\ FollowedBy(block, i, j)
       /\ Len(block[i].body) > 1
       /\ block[i].body[1].type = "Return" /\ HasBranch(block[i].body[1])
       /\ Branching(block[i].body[2])

(***************************************************************************)
(* C7 as claimed.  For a conditional with an else block of which a         *)
(* reachable side holds no branch-producing statement but falls through,   *)
(* every edge from the conditional to the next branch-producing statement  *)
(* after it is labelled false.                                              *)
(***************************************************************************)
Branchless(block) == \A k \in 1..Len(block) : ~Branching(block[k])

ThenReachable(stmt) == Resolved(stmt.test) # "False"

ElseReachable(stmt) == Resolved(stmt.test) # "True"

DirectLabels(stmt, next_stmt) ==
  {Flows[k].flowType : k \in {l \in DOMAIN Flows : Flows[l].source = BranchOf(stmt).id /\ Flows[l].target = BranchOf(next_stmt).id}}

C7_SynthesizedExitIsFalse ==
  \A block \in CollectedBlocks : \A i, j \in 1..Len(block) :
    /\ block[i].type = "If" /\ Len(block[i].orelse) > 0 /\ FollowedBy(block, i, j)
    /\ \/ ThenReachable(block[i]) /\ Branchless(block[i].body)
       \/ ElseReachable(block[i]) /\ Branchless(block[i].orelse)
    => DirectLabels(block[i], block[j]) = {"false"}

(***************************************************************************)
(* C7 as amended.  For a conditional with an else block, the exit anchor   *)
(* synthesized from the conditional itself has flow type true when it      *)
(* stands for a reachable then-block that holds no branch-producing        *)
(* statement, and flow type false when it stands for such an else-block;   *)
(* the edges from the conditional to the next branch-producing statement   *)
(* after it are exactly these.                                              *)
(***************************************************************************)
C7_SynthesizedExitBySide ==
  \A block \in CollectedBlocks : \A i, j \in 1..Len(block) :
    block[i].type = "If" /\ Len(block[i].orelse) > 0 /\ FollowedBy(block, i, j) =>
      /\ HasBranch(block[i]) /\ HasBranch(block[j])
      /\ DirectLabels(block[i], block[j]) =
           (IF ThenReachable(block[i]) /\ Branchless(block[i].body) THEN {"true"} ELSE {})
             \cup (IF ElseReachable(block[i]) /\ Branchless(block[i].orelse) THEN {"false"} ELSE {})

\* A conditional with a reachable then-block of assignments only and an else
\* block with a branch is followed by a statement: the edge is labelled true.
C7_Witness ==
  /\ pc = "done"
  /\ \E block \in CollectedBlocks : \E i, j \in 1..Len(block) :
       /\ block[i].type = "If" /\ Len(block[i].orelse) > 0 /\ FollowedBy(block, i, j)
       /\ ThenReachable(block[i]) /\ Branchless(block[i].body)
       /\ ~Branchless(block[i].orelse)
       /\ DirectLabels(block[i], block[j]) = {"true"}

(***************************************************************************)
(* C8 as claimed.  Reachability-aware fall-through: the fall-through value *)
(* that _collect_block returns for a block equals the left-to-right        *)
(* combination of the fall-through results that _collect_stmt returns for  *)
(* the block's statements.                                                  *)
(***************************************************************************)
BlockFalls(block) == _collect_block(NewCollector, "f", block).falls

StmtFalls(block) == \A k \in 1..Len(block) : _collect_stmt(NewCollector, "f", block[k]).falls

C8_BlockFallsIsStmtFalls ==
  \A block \in CollectedBlocks : BlockFalls(block) = StmtFalls(block)

(***************************************************************************)
(* C8 as amended.  The fall-through value that _collect_block returns for  *)
(* a block ignores reachability: a conditional with an else block counts   *)
(* as falling through iff its then-block or its else-block falls through.  *)
(* It is implied by the combination of the results _collect_stmt returns,  *)
(* and equals it when no conditional with an else block among the block's  *)
(* statements has a condition the oracle resolves.  An else-less "if"      *)
(* followed by a branch-producing statement S has the edge to S labelled   *)
(* next exactly when its then-block falls through in this sense.           *)
(***************************************************************************)
Unresolved(block) ==
  \A k \in 1..Len(block) : block[k].type = "If" /\ Len(block[k].orelse) > 0 => Resolved(block[k].test) = None

C8_BlockFallsIgnoresReachability ==
  \A block \in CollectedBlocks :
    /\ BlockFalls(block) = FallsThrough(block)
    /\ StmtFalls(block) => BlockFalls(block)
    /\ Unresolved(block) => BlockFalls(block) = StmtFalls(block)
    /\ \A i, j \in 1..Len(block) :
         block[i].type = "If" /\ Len(block[i].orelse) = 0 /\ FollowedBy(block, i, j) =>
           (Edge(BranchOf(block[i]).id, BranchOf(block[j]).id, "next") \in Range(Flows)) = FallsThrough(block[i].body)

\* A block whose only open path runs through the unreachable else block of a
\* conditional on a resolved condition has been collected: it is reported as
\* falling through although no statement result says so.
C8_Witness ==
  /\ pc = "done"
  /\ \E block \in CollectedBlocks : \E i \in 1..Len(block) :
       /\ block[i].type = "If" /\ Len(block[i].orelse) > 0
       /\ Resolved(block[i].test) = "True"
       /\ ~FallsThrough(block[i].body) /\ FallsThrough(block[i].orelse)
       /\ BlockFalls(block) /\ ~StmtFalls(block)

(***************************************************************************)
(* C9.  Exits agree with fall-through: whenever _collect_block reports     *)
(* that a block does not fall through, the list of pending exit anchors it *)
(* returns is empty; a statement placed after a return or raise in the     *)
(* then-block or else-block of a conditional is never the source of an     *)
(* edge to the statement that follows the conditional.                     *)
(***************************************************************************)
AfterTerminal(block, q) == \E p \in 1..(q - 1) : block[p].type \in {"Return", "Raise"}

C9_ExitsAgreeWithFallThrough ==
  /\ \A block \in CollectedBlocks :
       ~BlockFalls(block) => _collect_block(NewCollector, "f", block).exits = <<>>
  /\ \A block \in CollectedBlocks : \A i, j \in 1..Len(block) :
       block[i].type = "If" /\ FollowedBy(block, i, j) =>
         \A side \in {block[i].body, block[i].orelse} : \A q \in 1..Len(side) :
           AfterTerminal(side, q) /\ HasBranch(side[q]) /\ HasBranch(block[j]) =>
             \A k \in DOMAIN Flows : ~(Flows[k].source = BranchOf(side[q]).id /\ Flows[k].target = BranchOf(block[j]).id)

(***************************************************************************)
(* C10.  Edge well-formedness and acyclicity: in every reachable state     *)
(* each flow edge's target is the id of an emitted branch; its source is   *)
(* either the scope anchor "owner::q" of the target's owner q or the id of *)
(* a branch with the same owner, of the same function, emitted strictly    *)
(* before the target.  Hence no self-loop, no back-edge and no edge from   *)
(* one function's branches to another's.                                    *)
(***************************************************************************)
C10_EdgesWellFormed ==
  \A k \in DOMAIN Flows :
    \E t \in DOMAIN Branches :
      /\ Branches[t].id = Flows[k].target
      /\ \/ Flows[k].source = "owner::" \o Branches[t].owner
         \/ \E s \in 1..(t - 1) :
              /\ Branches[s].id = Flows[k].source
              /\ Branches[s].owner = Branches[t].owner
              /\ FunctionOf(Branches[s]) = FunctionOf(Branches[t])

\* The run is over with an anchor edge, a true edge, a false edge and a next
\* edge between branches.
C10_Witness ==
  /\ pc = "done"
  /\ \E k \in DOMAIN Flows : Flows[k].source = "owner::f"
  /\ \A ty \in {"true", "false", "next"} :
       \E k \in DOMAIN Flows : Flows[k].flowType = ty /\ \E s \in DOMAIN Branches : Branches[s].id = Flows[k].source

====
